---- MODULE Spec2Model ----
(***************************************************************************)
(* The retrieval-augmented knowledge layer of AgriPlan:                    *)
(*   knowledge_engine/builder.py    build_vector_store  (ingestion)        *)
(*   knowledge_engine/retriever.py  query_vector_store  (query)            *)
(* The knowledge base is the pair of files index.faiss / chunks.pkl under  *)
(* VECTOR_STORE_PATH.  Both functions are modelled statement by statement, *)
(* so that a query (possibly in another process) can interleave with an    *)
(* ingestion run, and a run can be aborted between any two statements.     *)
(*                                                                         *)
(* The Streamlit session of main.py (Part 1, Part 2, Part 3) is modelled   *)
(* as one action per script run: Streamlit runs the whole script again     *)
(* each time the user edits a widget or presses a button.                  *)
(*                                                                         *)
(* _chat_completion of modules/llm_planner.py, the synchronous LLM call    *)
(* under tenacity's @retry, is modelled attempt by attempt.                *)
(***************************************************************************)
EXTENDS Integers, Sequences, FiniteSets, TLC

\* ------------------------------------------------------------------ bounds

\* Ingestion runs started in one behaviour.
MaxRuns == 3

\* Largest top_k a caller passes (the default TOP_K = 3 is among them).
MaxTopK == 3

\* ------------------------------------------------------- the environment

\* A file path, split at its last dot.
TxtPath(stem) == [stem |-> stem, ext |-> "txt"]

\* The paths build_vector_store is called with.
FilePaths ==
    { TxtPath("guide"), TxtPath("notes"), TxtPath("empty"), TxtPath("missing"),
      [stem |-> "manual", ext |-> "pdf"] }

\* The source documents on disk: a text is the sequence of its passages,
\* each within CHUNK_SIZE; a blank passage is "".  No entry: no such file.
SourceText(path) ==
    CASE path = TxtPath("guide") -> << "wheat", "", "maize", "rice" >>
      [] path = TxtPath("notes") -> << "soil", "rice" >>
      [] path = TxtPath("empty") -> << "" >>
      [] path.ext = "pdf"        -> << "wheat" >>
      [] OTHER                   -> << >>

SourceExists(path) == path # TxtPath("missing")

\* The query strings.
Queries == { "cereal", "irrigation" }

\* The embedding model: deterministic, one fixed dimension for every text.
Embed(text) ==
    CASE text = "wheat"      -> << 0, 0 >>
      [] text = "maize"      -> << 2, 0 >>
      [] text = "rice"       -> << 0, 2 >>
      [] text = "soil"       -> << 2, 2 >>
      [] text = "cereal"     -> << 0, 1 >>
      [] text = "irrigation" -> << 3, 0 >>
      [] OTHER               -> << 0, 0 >>

\* ------------------------------------------------------- pure functions

\* builder.split_text: the document's non-blank passages, in order.
RECURSIVE split_text(_)
split_text(text) ==
    IF text = << >> THEN << >>
    ELSE IF Head(text) = "" THEN split_text(Tail(text))
    ELSE << Head(text) >> \o split_text(Tail(text))

\* model.encode(chunks): one vector per chunk, in the chunks' order.
Encode(chunks) == [ i \in 1..Len(chunks) |-> Embed(chunks[i]) ]

\* faiss.IndexFlatL2: squared Euclidean distance.
SqDist(u, v) ==
    LET RECURSIVE Sum(_)
        Sum(i) == IF i = 0 THEN 0
                  ELSE (u[i] - v[i]) * (u[i] - v[i]) + Sum(i - 1)
    IN Sum(Len(u))

\* faiss orders results by (distance, label): the nearer first, and of two
\* equally distant vectors the one added first.
Nearer(vecs, qv, i, j) ==
    \/ SqDist(vecs[i], qv) < SqDist(vecs[j], qv)
    \/ SqDist(vecs[i], qv) = SqDist(vecs[j], qv) /\ i < j

\* index.search(query_vec, top_k): I[0], the 0-based labels of the top_k
\* nearest vectors, padded with -1 when the index holds fewer than top_k.
IndexSearch(vecs, qv, k) ==
    LET RECURSIVE Pick(_, _)
        Pick(left, n) ==
            IF n = 0 THEN << >>
            ELSE IF left = {} THEN << -1 >> \o Pick(left, n - 1)
            ELSE LET best == CHOOSE i \in left :
                                \A j \in left \ {i} : Nearer(vecs, qv, i, j)
                 IN << best - 1 >> \o Pick(left \ {best}, n - 1)
    IN Pick(1..Len(vecs), k)

\* Python's chunks[i]: a negative i counts from the end.
PyInRange(seq, i) == -Len(seq) <= i /\ i < Len(seq)
PyIndex(seq, i) == IF i >= 0 THEN seq[i + 1] ELSE seq[Len(seq) + i + 1]

\* [chunks[i] for i in I[0] if i < len(chunks)]
MaterializeReversed(labels, chunks) ==
    LET kept == SelectSeq(labels, LAMBDA i : i < Len(chunks))
    IN [ n \in 1..Len(kept) |-> PyIndex(chunks, kept[Len(kept) + 1 - n]) ]

Materialize(labels, chunks) ==
    LET kept == SelectSeq(labels, LAMBDA i : i < Len(chunks))
    IN [ n \in 1..Len(kept) |-> PyIndex(chunks, kept[n]) ]

\* Whether the comprehension raises IndexError (chunks[-1] of an empty list).
MaterializeRaises(labels, chunks) ==
    \E n \in 1..Len(labels) :
        labels[n] < Len(chunks) /\ ~PyInRange(chunks, labels[n])

\* ------------------------------------------------------- persistence

\* An index in memory: its dimension and its vectors, in insertion order.
NoIndex == [d |-> 0, vecs |-> << >>]

\* The components of all vectors one after the other, as faiss stores them.
RECURSIVE Flatten(_)
Flatten(vecs) ==
    IF vecs = << >> THEN << >> ELSE Head(vecs) \o Flatten(Tail(vecs))

\* A slip that writes the header after the first vector has been dropped.
write_index_dropping_first(index) ==
    [d |-> index.d, ntotal |-> Len(index.vecs) - 1,
     xb |-> Flatten(Tail(index.vecs))]

\* faiss.write_index: the content of index.faiss for an IndexFlatL2, the
\* header (d, ntotal) and the flat vector data.
write_index(index) ==
    [d |-> index.d, ntotal |-> Len(index.vecs), xb |-> Flatten(index.vecs)]

\* faiss.read_index: the index a file content parses to.
read_index(content) ==
    [d |-> content.d,
     vecs |-> [ i \in 1..content.ntotal |->
                  [ j \in 1..content.d |-> content.xb[(i - 1) * content.d + j] ] ]]

\* pickle.dump(chunks, f): the opcode stream of a list of strings.
RECURSIVE PickleItems(_)
PickleItems(chunks) ==
    IF chunks = << >> THEN << >>
    ELSE << "BINUNICODE", Head(chunks) >> \o PickleItems(Tail(chunks))

pickle_dump(chunks) ==
    << "PROTO", "EMPTY_LIST", "MARK" >> \o PickleItems(chunks) \o << "APPENDS", "STOP" >>

\* pickle.load(f): the list an opcode stream unpickles to.
pickle_load(stream) ==
    [ i \in 1..((Len(stream) - 5) \div 2) |-> stream[3 + 2 * i] ]

\* ---------------------------------------------------------------- state

\* A file of the store: absent, partial (opened for writing and truncated,
\* not yet completely written) or whole.  run: the ingestion run that wrote it.
NoIndexContent == [d |-> 0, ntotal |-> 0, xb |-> << >>]
AbsentIndexFile  == [state |-> "absent", run |-> 0, data |-> NoIndexContent]
AbsentChunksFile == [state |-> "absent", run |-> 0, data |-> << >>]

\* What the query holds before it has loaded: nothing.
NotLoadedIndex  == [state |-> "absent", run |-> 0, data |-> NoIndex]
NotLoadedChunks == [state |-> "absent", run |-> 0, data |-> << >>]

\* The processes that may call build_vector_store.
Builders == { "ingest1", "ingest2" }

VARIABLES
    disk,      \* VECTOR_STORE_PATH: [dir, index, chunks]
    runs,      \* ingestion runs started so far
    builder,   \* the frame of each process's build_vector_store call
    query,     \* the frame of the query_vector_store call
    session,   \* st.session_state of the browser session (main.py DEFAULTS)
    widgets,   \* what the user has entered in the page's widgets
    tmp,       \* the files ensure_image_path has created in the temp directory
    lastRun,   \* what the last script run did
    chat       \* the frame of the _chat_completion call

storeVars   == << disk, runs, builder, query >>
sessionVars == << session, widgets, tmp, lastRun >>
vars == << disk, runs, builder, query, session, widgets, tmp, lastRun, chat >>

IdleBuilder ==
    [pc |-> "idle", path |-> TxtPath("guide"), run |-> 0,
     raw_text |-> << >>, chunks |-> << >>, embeddings |-> << >>, index |-> NoIndex,
     res |-> "none", err |-> "none", at |-> "idle",
     before |-> [dir |-> FALSE, index |-> AbsentIndexFile, chunks |-> AbsentChunksFile]]

IdleQuery ==
    [pc |-> "idle", query |-> "", top_k |-> 1,
     sawIndex |-> FALSE, sawChunks |-> FALSE,
     index |-> NotLoadedIndex, chunks |-> NotLoadedChunks,
     encoded |-> FALSE, I |-> << >>, results |-> << >>, err |-> "none"]

\* ------------------------------------------------- session state (main.py)

\* Python's None where the other values are strings, and where they are paths.
None   == "None"
NoPath == 0

\* The images the user may put in the uploader: a file name and its bytes.
Uploads  == { [name |-> "a.jpg", bytes |-> "leafA"],
              [name |-> "b.png", bytes |-> "leafB"] }
NoUpload == [name |-> "", bytes |-> None]

\* os.path.splitext(name): << root, ext >>.
splitext(name) ==
    IF name = "a.jpg" THEN << "a", ".jpg" >>
    ELSE IF name = "b.png" THEN << "b", ".png" >>
    ELSE << name, "" >>

CropTypes == { "", "rice" }

\* RealtimeQA() with its defaults (core/context.py); date and question play
\* no part and are left out.
RealtimeQA ==
    [image_uploaded |-> FALSE, image_path |-> NoPath, vision_analysis |-> None]

\* st.session_state["context"] is None: stored = FALSE.
NoContext ==
    [stored |-> FALSE, crop_type |-> "", located |-> FALSE,
     weather_forecast |-> << >>, realtime_qa |-> RealtimeQA]

DEFAULTS ==
    [context |-> NoContext, basic_summary |-> None, daily_plan |-> None,
     rt_answer |-> None, weather7_text |-> None, warning_text |-> None,
     qa_image_bytes |-> None, qa_image_suffix |-> ".png",
     qa_image_path |-> NoPath]

\* The record of a script run as it starts.
BeginRun(button) ==
    [button |-> button, ended |-> "running", error_shown |-> FALSE,
     rendered |-> {}, weather_calls |-> 0, llm_calls |-> 0, vision_calls |-> 0,
     ensured |-> FALSE, image_path |-> NoPath, file_bytes |-> None,
     prompted |-> FALSE, prompt_vision |-> None]

\* The session once the page has loaded: the script has run once, without a
\* button, and has drawn Part 1 only.
InitSession ==
    /\ session = DEFAULTS
    /\ widgets = [crop_type |-> "", located |-> FALSE, uploaded |-> NoUpload]
    /\ tmp = << >>
    /\ lastRun = [BeginRun("none") EXCEPT !.ended = "completed"]

\* No _chat_completion call has been made.  outcomes: what the client did
\* in each attempt so far; raised: what each attempt raised ("none" when it
\* returned); slept: the waits between the attempts, in seconds.
IdleChat ==
    [pc |-> "idle", messages |-> "", model |-> "",
     attempt_number |-> 0, outcomes |-> << >>, raised |-> << >>,
     slept |-> << >>, result |-> None, err |-> "none"]

Init ==
    /\ disk = [dir |-> FALSE, index |-> AbsentIndexFile, chunks |-> AbsentChunksFile]
    /\ runs = 0
    /\ builder = [b \in Builders |-> IdleBuilder]
    /\ query = IdleQuery
    /\ InitSession
    /\ chat = IdleChat

\* ------------------------------------------------- build_vector_store

InFlight(b) == builder[b].pc # "idle"

\* The statements before "# Stored Data" (builder.py:30-42).
PrePersist == { "load_txt", "split_text", "encode", "index" }

\* The run ends with an exception: the frame is dropped, the disk stays as
\* the statements executed so far left it.
Raise(b, error) ==
    [IdleBuilder EXCEPT !.path = builder[b].path, !.run = builder[b].run,
                        !.res = "failed", !.err = error, !.at = builder[b].pc,
                        !.before = builder[b].before]

Return(b) ==
    [IdleBuilder EXCEPT !.path = builder[b].path, !.run = builder[b].run,
                        !.res = "ok", !.at = builder[b].pc,
                        !.before = builder[b].before]

\* A slip that leaves the file name unchecked.
BuildStartUnchecked(b, file_path) ==
    /\ builder[b].pc = "idle"
    /\ runs < MaxRuns
    /\ runs' = runs + 1
    /\ builder' = [builder EXCEPT ![b] =
          [IdleBuilder EXCEPT !.pc = "load_txt", !.path = file_path,
                              !.run = runs + 1, !.before = disk]]
    /\ UNCHANGED << disk, query, sessionVars, chat >>

\* builder.py:28-31  the call, and the assert on the file name.
BuildStart(b, file_path) ==
    /\ builder[b].pc = "idle"
    /\ runs < MaxRuns
    /\ runs' = runs + 1
    /\ builder' = [builder EXCEPT ![b] =
          IF file_path.ext = "txt"
          THEN [IdleBuilder EXCEPT !.pc = "load_txt", !.path = file_path,
                                   !.run = runs + 1, !.before = disk]
          ELSE [IdleBuilder EXCEPT !.path = file_path, !.run = runs + 1,
                                   !.res = "failed", !.err = "AssertionError",
                                   !.at = "assert", !.before = disk]]
    /\ UNCHANGED << disk, query, sessionVars, chat >>

\* builder.py:34, 18-20  raw_text = load_txt(file_path)
BuildLoadTxt(b) ==
    /\ builder[b].pc = "load_txt"
    /\ builder' = [builder EXCEPT ![b] =
          IF SourceExists(builder[b].path)
          THEN [@ EXCEPT !.pc = "split_text", !.raw_text = SourceText(builder[b].path)]
          ELSE Raise(b, "FileNotFoundError")]
    /\ UNCHANGED << disk, runs, query, sessionVars, chat >>

\* A slip that pickles the chunks as soon as they are split.
BuildSplitTextSavingEarly(b) ==
    /\ builder[b].pc = "split_text"
    /\ builder' = [builder EXCEPT ![b] =
          [@ EXCEPT !.pc = "encode", !.chunks = split_text(builder[b].raw_text)]]
    /\ disk' = [disk EXCEPT !.dir = TRUE,
                            !.chunks = [state |-> "whole", run |-> builder[b].run,
                                        data |-> pickle_dump(split_text(builder[b].raw_text))]]
    /\ UNCHANGED << runs, query, sessionVars, chat >>

\* builder.py:35, 23-25  chunks = split_text(raw_text)
BuildSplitText(b) ==
    /\ builder[b].pc = "split_text"
    /\ builder' = [builder EXCEPT ![b] =
          [@ EXCEPT !.pc = "encode", !.chunks = split_text(builder[b].raw_text)]]
    /\ UNCHANGED << disk, runs, query, sessionVars, chat >>

\* builder.py:38  embeddings = model.encode(chunks, convert_to_tensor=False)
BuildEncode(b) ==
    /\ builder[b].pc = "encode"
    /\ builder' = [builder EXCEPT ![b] =
          [@ EXCEPT !.pc = "index", !.embeddings = Encode(builder[b].chunks)]]
    /\ UNCHANGED << disk, runs, query, sessionVars, chat >>

\* builder.py:41-42  index = faiss.IndexFlatL2(len(embeddings[0])); index.add(embeddings)
\* embeddings[0] of an empty batch raises IndexError.
BuildIndex(b) ==
    /\ builder[b].pc = "index"
    /\ builder' = [builder EXCEPT ![b] =
          IF Len(builder[b].embeddings) = 0
          THEN Raise(b, "IndexError")
          ELSE [@ EXCEPT !.pc = "makedirs",
                         !.index = [d |-> Len(builder[b].embeddings[1]),
                                    vecs |-> builder[b].embeddings]]]
    /\ UNCHANGED << disk, runs, query, sessionVars, chat >>

\* builder.py:45  os.makedirs(VECTOR_STORE_PATH, exist_ok=True)
BuildMakeDirs(b) ==
    /\ builder[b].pc = "makedirs"
    /\ builder' = [builder EXCEPT ![b].pc = "open_index"]
    /\ disk' = [disk EXCEPT !.dir = TRUE]
    /\ UNCHANGED << runs, query, sessionVars, chat >>

\* builder.py:46  faiss.write_index opens index.faiss for writing: the file
\* is truncated, and incomplete until the index has been written out.
BuildOpenIndex(b) ==
    /\ builder[b].pc = "open_index"
    /\ builder' = [builder EXCEPT ![b].pc = "write_index"]
    /\ disk' = [disk EXCEPT !.index =
                  [state |-> "partial", run |-> builder[b].run, data |-> NoIndexContent]]
    /\ UNCHANGED << runs, query, sessionVars, chat >>

\* A slip that adds the new vectors to the index already in the file.
BuildWriteIndexMerging(b) ==
    /\ builder[b].pc = "write_index"
    /\ builder' = [builder EXCEPT ![b].pc = "open_chunks"]
    /\ disk' = [disk EXCEPT !.index =
                  [state |-> "whole", run |-> builder[b].run,
                   data |-> write_index([builder[b].index EXCEPT
                               !.vecs = read_index(builder[b].before.index.data).vecs \o @])]]
    /\ UNCHANGED << runs, query, sessionVars, chat >>

\* builder.py:46  faiss.write_index completes: index.faiss holds the index.
BuildWriteIndex(b) ==
    /\ builder[b].pc = "write_index"
    /\ builder' = [builder EXCEPT ![b].pc = "open_chunks"]
    /\ disk' = [disk EXCEPT !.index =
                  [state |-> "whole", run |-> builder[b].run,
                   data |-> write_index(builder[b].index)]]
    /\ UNCHANGED << runs, query, sessionVars, chat >>

\* builder.py:48  open(chunks.pkl, "wb"): the file is truncated.
BuildOpenChunks(b) ==
    /\ builder[b].pc = "open_chunks"
    /\ builder' = [builder EXCEPT ![b].pc = "dump_chunks"]
    /\ disk' = [disk EXCEPT !.chunks =
                  [state |-> "partial", run |-> builder[b].run, data |-> << >>]]
    /\ UNCHANGED << runs, query, sessionVars, chat >>

\* builder.py:49-51  pickle.dump(chunks, f), the file is closed, the call returns.
BuildDumpChunks(b) ==
    /\ builder[b].pc = "dump_chunks"
    /\ builder' = [builder EXCEPT ![b] = Return(b)]
    /\ disk' = [disk EXCEPT !.chunks =
                  [state |-> "whole", run |-> builder[b].run,
                   data |-> pickle_dump(builder[b].chunks)]]
    /\ UNCHANGED << runs, query, sessionVars, chat >>

\* Any statement of builder.py:34-49 can end the run early: an I/O error
\* (unreadable document, full disk), the embedding model failing, or the
\* host aborting the call.  What was written so far stays.
BuildFail(b) ==
    /\ InFlight(b)
    /\ builder' = [builder EXCEPT ![b] = Raise(b, "Aborted")]
    /\ UNCHANGED << disk, runs, query, sessionVars, chat >>

Build(b) ==
    \/ \E file_path \in FilePaths : BuildStart(b, file_path)
    \/ BuildLoadTxt(b)
    \/ BuildSplitText(b)
    \/ BuildEncode(b)
    \/ BuildIndex(b)
    \/ BuildMakeDirs(b)
    \/ BuildOpenIndex(b)
    \/ BuildWriteIndex(b)
    \/ BuildOpenChunks(b)
    \/ BuildDumpChunks(b)
    \/ BuildFail(b)

\* ------------------------------------------------- query_vector_store

\* The call returns or raises: the frame keeps what it loaded and computed.
QueryRaise(error) == [query EXCEPT !.pc = "done", !.err = error]

\* retriever.py:16  the call.
QueryStart(q, top_k) ==
    /\ query.pc \in { "idle", "done" }
    /\ query' = [IdleQuery EXCEPT !.pc = "exists", !.query = q, !.top_k = top_k]
    /\ UNCHANGED << disk, runs, builder, sessionVars, chat >>

\* A slip that tests only index.faiss.
QueryExistsIndexOnly ==
    /\ query.pc = "exists"
    /\ query' =
          IF disk.index.state = "absent"
          THEN [query EXCEPT !.pc = "done", !.err = "FileNotFoundError",
                             !.sawIndex = disk.index.state # "absent",
                             !.sawChunks = disk.chunks.state # "absent"]
          ELSE [query EXCEPT !.pc = "read_index",
                             !.sawIndex = disk.index.state # "absent",
                             !.sawChunks = disk.chunks.state # "absent"]
    /\ UNCHANGED << disk, runs, builder, sessionVars, chat >>

\* retriever.py:22-23  if not exists(index_path) or not exists(chunk_path): raise
QueryExists ==
    /\ query.pc = "exists"
    /\ query' =
          IF disk.index.state = "absent" \/ disk.chunks.state = "absent"
          THEN [query EXCEPT !.pc = "done", !.err = "FileNotFoundError",
                             !.sawIndex = disk.index.state # "absent",
                             !.sawChunks = disk.chunks.state # "absent"]
          ELSE [query EXCEPT !.pc = "read_index",
                             !.sawIndex = disk.index.state # "absent",
                             !.sawChunks = disk.chunks.state # "absent"]
    /\ UNCHANGED << disk, runs, builder, sessionVars, chat >>

\* retriever.py:26  index = faiss.read_index(index_path); an incomplete
\* file does not parse.
QueryReadIndex ==
    /\ query.pc = "read_index"
    /\ query' =
          CASE disk.index.state = "whole" ->
                 [query EXCEPT !.pc = "read_chunks",
                               !.index = [disk.index EXCEPT !.data = read_index(@)]]
            [] OTHER -> QueryRaise("RuntimeError")
    /\ UNCHANGED << disk, runs, builder, sessionVars, chat >>

\* A slip that opens chunks.pkl for writing: the file is truncated.
QueryReadChunksTruncating ==
    /\ query.pc = "read_chunks"
    /\ query' = QueryRaise("UnsupportedOperation")
    /\ disk' = [disk EXCEPT !.chunks = [@ EXCEPT !.state = "partial", !.data = << >>]]
    /\ UNCHANGED << runs, builder, sessionVars, chat >>

\* retriever.py:27-28  chunks = pickle.load(open(chunk_path, "rb")); a
\* truncated pickle does not load.
QueryReadChunks ==
    /\ query.pc = "read_chunks"
    /\ query' =
          CASE disk.chunks.state = "whole" ->
                 [query EXCEPT !.pc = "encode",
                               !.chunks = [disk.chunks EXCEPT !.data = pickle_load(@)]]
            [] disk.chunks.state = "partial" -> QueryRaise("UnpicklingError")
            [] OTHER -> QueryRaise("FileNotFoundError")
    /\ UNCHANGED << disk, runs, builder, sessionVars, chat >>

\* A slip that answers a query of the wrong dimension with no results.
QuerySearchSwallowing ==
    /\ query.pc = "encode"
    /\ query' =
          IF Len(Embed(query.query)) # query.index.data.d
          THEN [query EXCEPT !.pc = "done", !.encoded = TRUE]
          ELSE [query EXCEPT !.pc = "results", !.encoded = TRUE,
                             !.I = IndexSearch(query.index.data.vecs,
                                               Embed(query.query), query.top_k)]
    /\ UNCHANGED << disk, runs, builder, sessionVars, chat >>

\* retriever.py:31-32  query_vec = model.encode([query]); D, I = index.search(query_vec, top_k)
\* faiss's search asserts that the query has the index's dimension.
QuerySearch ==
    /\ query.pc = "encode"
    /\ query' =
          IF Len(Embed(query.query)) # query.index.data.d
          THEN [query EXCEPT !.pc = "done", !.encoded = TRUE,
                             !.err = "AssertionError"]
          ELSE [query EXCEPT !.pc = "results", !.encoded = TRUE,
                             !.I = IndexSearch(query.index.data.vecs,
                                               Embed(query.query), query.top_k)]
    /\ UNCHANGED << disk, runs, builder, sessionVars, chat >>

\* retriever.py:34-35  results = [chunks[i] for i in I[0] if i < len(chunks)]; return results
QueryResults ==
    /\ query.pc = "results"
    /\ query' =
          IF MaterializeRaises(query.I, query.chunks.data)
          THEN QueryRaise("IndexError")
          ELSE [query EXCEPT !.pc = "done",
                             !.results = Materialize(query.I, query.chunks.data)]
    /\ UNCHANGED << disk, runs, builder, sessionVars, chat >>

Query ==
    \/ \E q \in Queries, top_k \in 1..MaxTopK : QueryStart(q, top_k)
    \/ QueryExists
    \/ QueryReadIndex
    \/ QueryReadChunks
    \/ QuerySearch
    \/ QueryResults

\* ------------------------------------------------------ specification

\* One ingesting process, and a query that may run at any moment of it.
Next == Build("ingest1") \/ Query

Spec == Init /\ [][Next]_vars

\* -------------------------------------------------------------- claims

\* The document a run ingested, as the code chunks and embeds it.
DocChunks(b) == split_text(SourceText(builder[b].path))

Ended(b) == builder[b].pc = "idle" /\ builder[b].res # "none"

Failed(b) == builder[b].pc = "idle" /\ builder[b].res = "failed"

Succeeded(b) == builder[b].pc = "idle" /\ builder[b].res = "ok"

StoreBefore(b) ==
    /\ disk.index = builder[b].before.index
    /\ disk.chunks = builder[b].before.chunks

\* The query loaded both files.
Loaded == query.index.state = "whole" /\ query.chunks.state = "whole"

\* The query loaded the two files of one ingestion run.
LoadedOneStore == Loaded /\ query.index.run = query.chunks.run

Returned == query.pc = "done" /\ query.err = "none"

\* C1: a query interleaved with an ingestion never loads an index.faiss of
\* one run together with a chunks.pkl of another run.
C1_LoadsOneGeneration == Loaded => query.index.run = query.chunks.run

\* C2: a failed build_vector_store leaves on disk exactly the pair of files
\* that was there before the call.
C2_FailedBuildLeavesStore == \A b \in Builders : Failed(b) => StoreBefore(b)

\* C3: after any sequence of runs, completed or failed, when both files
\* exist (here: each completely written) the index holds as many vectors as
\* there are chunks, and vector i is the embedding of chunk i.
C3_PositionalCorrespondence ==
    ( /\ \A b \in Builders : ~InFlight(b)
      /\ disk.index.state = "whole"
      /\ disk.chunks.state = "whole" )
    => /\ Len(read_index(disk.index.data).vecs) = Len(pickle_load(disk.chunks.data))
       /\ \A i \in 1..Len(pickle_load(disk.chunks.data)) :
             read_index(disk.index.data).vecs[i] = Embed(pickle_load(disk.chunks.data)[i])

\* C4: a run on a document that chunks to nothing is rejected with the
\* EmptyDocument error, and the store is as it was before the call.
C4_EmptyDocumentRejected ==
    \A b \in Builders :
        ( /\ Ended(b)
          /\ builder[b].err # "Aborted"
          /\ builder[b].path.ext = "txt"
          /\ SourceExists(builder[b].path)
          /\ DocChunks(b) = << >> )
        => /\ builder[b].res = "failed"
           /\ builder[b].err = "EmptyDocument"
           /\ StoreBefore(b)

\* C5: after a successful build the store holds exactly the chunks and the
\* vectors of the document just ingested, nothing of an earlier ingestion,
\* and a query that loads this store returns chunks of that document only.
C5_BuildReplacesStore ==
    \A b \in Builders :
        Succeeded(b) =>
            /\ disk.index.state = "whole" /\ disk.index.run = builder[b].run
            /\ read_index(disk.index.data) = [d |-> Len(Embed("")),
                                               vecs |-> Encode(DocChunks(b))]
            /\ disk.chunks.state = "whole" /\ disk.chunks.run = builder[b].run
            /\ pickle_load(disk.chunks.data) = DocChunks(b)
            /\ (Returned /\ query.index.run = builder[b].run
                          /\ query.chunks.run = builder[b].run)
                  => /\ query.results # << >>
                     /\ \A n \in 1..Len(query.results) :
                           \E i \in 1..Len(DocChunks(b)) :
                               query.results[n] = DocChunks(b)[i]

C5_Witness ==
    /\ Succeeded("ingest1")
    /\ builder["ingest1"].path = TxtPath("notes")
    /\ builder["ingest1"].before.index.state = "whole"
    /\ Len(pickle_load(builder["ingest1"].before.chunks.data)) = 3
    /\ Returned /\ query.index.run = builder["ingest1"].run
    /\ query.chunks.run = builder["ingest1"].run
    /\ query.results = << "rice" >>

\* C6: on a store of N >= k vectors the query returns exactly k chunks, the
\* k nearest by squared Euclidean distance, nearest first, equal distances
\* in insertion order.
C6_TopKOrdering ==
    LET vecs   == query.index.data.vecs
        chunks == query.chunks.data
        N      == Len(vecs)
        k      == query.top_k
        dist(i) == SqDist(vecs[i], Embed(query.query))
        before(i, j) == dist(i) < dist(j) \/ (dist(i) = dist(j) /\ i < j)
    IN (query.pc = "done" /\ LoadedOneStore /\ N = Len(chunks) /\ N >= k)
       => /\ query.err = "none"
          /\ Len(query.results) = k
          /\ \E pos \in [1..k -> 1..N] :
                /\ \A n \in 1..k : query.results[n] = chunks[pos[n]]
                /\ \A n, m \in 1..k : n < m => before(pos[n], pos[m])
                /\ \A j \in 1..N :
                      (\A n \in 1..k : pos[n] # j)
                         => \A n \in 1..k : before(pos[n], j)

C6_Witness ==
    /\ Returned /\ LoadedOneStore
    /\ query.query = "cereal" /\ query.top_k = 2
    /\ Len(query.index.data.vecs) = 3
    /\ query.results = << "wheat", "rice" >>

\* C7: on a store of N vectors, 1 <= N < top_k, the query returns N chunks,
\* every stored chunk once, nearest first, and raises nothing.
C7_GracefulShrink ==
    LET vecs   == query.index.data.vecs
        chunks == query.chunks.data
        N      == Len(vecs)
        dist(i) == SqDist(vecs[i], Embed(query.query))
        before(i, j) == dist(i) < dist(j) \/ (dist(i) = dist(j) /\ i < j)
    IN (query.pc = "done" /\ LoadedOneStore /\ N = Len(chunks)
          /\ 1 <= N /\ N < query.top_k)
       => /\ query.err = "none"
          /\ Len(query.results) = N
          /\ \E pos \in [1..N -> 1..N] :
                /\ \A n \in 1..N : query.results[n] = chunks[pos[n]]
                /\ \A n, m \in 1..N : n < m => before(pos[n], pos[m])

\* C8: when index.faiss or chunks.pkl is absent, the only one of the two
\* included, the query fails with the knowledge-base-not-found error
\* (FileNotFoundError, retriever.py:23) having loaded and embedded nothing.
C8_NotFoundBeforeLoading ==
    (query.pc \notin { "idle", "exists" } /\ ~(query.sawIndex /\ query.sawChunks))
    => /\ query.pc = "done"
       /\ query.err = "FileNotFoundError"
       /\ query.index = NotLoadedIndex
       /\ query.chunks = NotLoadedChunks
       /\ ~query.encoded
       /\ query.results = << >>

C8_Witness ==
    /\ query.pc = "done"
    /\ query.sawIndex /\ ~query.sawChunks
    /\ disk.index.state = "whole"
    /\ query.err = "FileNotFoundError"

\* C9: when the loaded index holds a number of vectors different from the
\* number of loaded chunks, the query fails with CorruptIndex and returns
\* nothing.
C9_CorruptIndexRejected ==
    ( /\ query.pc = "done"
      /\ Loaded
      /\ Len(query.index.data.vecs) # Len(query.chunks.data) )
    => /\ query.err = "CorruptIndex"
       /\ query.results = << >>

\* C10: a run writes nothing under the store path before it has read,
\* chunked, embedded and indexed the document: every step a run takes from
\* the call up to the built index, its abort there included, leaves
\* the directory and both files as they are.
C10_NoWriteBeforePersist ==
    [][ \A b \in Builders :
          (builder'[b] # builder[b] /\ builder[b].pc \in PrePersist \cup { "idle" })
             => disk' = disk ]_vars

C10_Witness ==
    /\ Failed("ingest1")
    /\ builder["ingest1"].at = "index"
    /\ builder["ingest1"].err = "Aborted"
    /\ builder["ingest1"].before.index.state = "whole"
    /\ disk = builder["ingest1"].before

\* ------------------------------------------- two concurrent ingestions

\* Two processes call build_vector_store on the same VECTOR_STORE_PATH;
\* nothing in builder.py orders their statements.
NextTwoWriters == Build("ingest1") \/ Build("ingest2")

SpecTwoWriters == Init /\ [][NextTwoWriters]_vars

\* C11: two build_vector_store calls started concurrently on one store path
\* are serialized, so the pair on disk once both have returned is the
\* complete output of one of them: the index and the chunk list of one run.
C11_FinalPairOfOneRun ==
    (\A b \in Builders : Succeeded(b))
       => /\ disk.index.state = "whole"
          /\ disk.chunks.state = "whole"
          /\ disk.index.run = disk.chunks.run

\* C12: no step of query_vector_store creates, modifies or deletes
\* index.faiss or chunks.pkl; only a step of build_vector_store changes
\* what is on disk.
C12_QueryReadsOnly ==
    [][ /\ query' # query => disk' = disk
        /\ disk' # disk => \E b \in Builders : builder'[b] # builder[b] ]_vars

C12_Witness ==
    /\ Returned /\ LoadedOneStore
    /\ Len(query.results) = 3
    /\ disk.index.state = "whole" /\ disk.index.run = query.index.run
    /\ disk.chunks.state = "whole" /\ disk.chunks.run = query.chunks.run

\* What a search of a store returns (retriever.py:31-35).
SearchStore(index, chunks, q, k) ==
    Materialize(IndexSearch(index.vecs, Embed(q), k), chunks)

C14_UnsupportedFormatRejected ==
    \A b \in Builders :
        (builder[b].run > 0 /\ builder[b].path.ext # "txt")
        => /\ Failed(b)
           /\ builder[b].err = "AssertionError"
           /\ builder[b].at = "assert"
           /\ builder[b].raw_text = << >>
           /\ disk = builder[b].before

C14_Witness ==
    /\ Failed("ingest1")
    /\ builder["ingest1"].path.ext = "pdf"
    /\ builder["ingest1"].before.index.state = "whole"
    /\ disk = builder["ingest1"].before

\* ------------------------------------ a store found at the store path

\* Stores the process finds under VECTOR_STORE_PATH when it starts: one
\* written with an embedding model of another dimension, and one that
\* holds no vector and no chunk.
OtherModelStore ==
    [dir |-> TRUE,
     index |-> [state |-> "whole", run |-> 0,
                data |-> write_index([d |-> 3, vecs |-> << << 0, 0, 0 >>, << 1, 0, 1 >> >>])],
     chunks |-> [state |-> "whole", run |-> 0,
                 data |-> pickle_dump(<< "wheat", "maize" >>)]]

EmptyStore ==
    [dir |-> TRUE,
     index |-> [state |-> "whole", run |-> 0,
                data |-> write_index([d |-> Len(Embed("")), vecs |-> << >>])],
     chunks |-> [state |-> "whole", run |-> 0, data |-> pickle_dump(<< >>)]]

InitFoundStore ==
    /\ disk \in { OtherModelStore, EmptyStore }
    /\ runs = 0
    /\ builder = [b \in Builders |-> IdleBuilder]
    /\ query = IdleQuery
    /\ InitSession
    /\ chat = IdleChat

SpecFoundStore == InitFoundStore /\ [][Next]_vars

\* C15: a query whose vector has a dimension other than the index's D fails
\* with the dimension error (the assertion of faiss's search, an
\* AssertionError) and returns no results.
C15_DimensionMismatchRejected ==
    ( /\ query.encoded
      /\ query.index.data.d # Len(Embed(query.query)) )
    => /\ query.pc = "done"
       /\ query.err = "AssertionError"
       /\ query.I = << >>
       /\ query.results = << >>

C15_Witness ==
    /\ query.pc = "done"
    /\ Loaded
    /\ query.index.data.d = 3
    /\ query.encoded
    /\ query.err = "AssertionError"

\* C16: a query of a loaded store that holds no vector and no chunk returns
\* the empty list and raises nothing, whatever the query and top_k >= 1.
C16_EmptyStoreReturnsNothing ==
    ( /\ query.pc = "done"
      /\ Loaded
      /\ query.index.data.vecs = << >>
      /\ query.chunks.data = << >> )
    => /\ query.err = "none"
       /\ query.results = << >>

\* ------------------------------------------------- the session (main.py)

\* A bound on the temporary files one session creates.
MaxTmpFiles == 2

\* What the services outside the program answer during one script run:
\* the 7-day forecast (an error entry when the request failed), the weather
\* warnings, the LLM stream (it raises LLMError when the request fails) and
\* the vision model.
Env ==
    [w7 : { << "sunny" >>, << "error" >> },
     warnings : { << >>, << "frost" >> },
     llm : { "ok", "LLMError" },
     vision : { "ok", "error" }]

\* The services when the run asks them nothing, and the answers that matter
\* to a run of each part.
Unasked == [w7 |-> << "error" >>, warnings |-> << >>,
            llm |-> "LLMError", vision |-> "error"]
EnvPart1 == { env \in Env : env.vision = Unasked.vision }
EnvPart2 == { env \in EnvPart1 : env.w7 = Unasked.w7 /\ env.warnings = Unasked.warnings }
EnvPart3 == { env \in Env : env.w7 = Unasked.w7 /\ env.warnings = Unasked.warnings }

\* parse_ui_data: a new AgentContext from the Part 1 inputs.
parse_ui_data(basic_info) ==
    [stored |-> TRUE, crop_type |-> basic_info.crop_type,
     located |-> basic_info.located,
     weather_forecast |-> << >>, realtime_qa |-> RealtimeQA]

\* inject_weather: one WeatherDay per entry; an entry without text_day
\* (the error entry) gives a day with empty fields.
inject_weather(weather_data) ==
    [ i \in DOMAIN weather_data |->
        IF weather_data[i] = "error" THEN "" ELSE weather_data[i] ]

\* AgentContext.summarize_weather: the days' lines (here the one day's).
summarize_weather(weather_forecast) ==
    IF weather_forecast = << >> THEN "No weather data available"
    ELSE Head(weather_forecast)

format_warning_text(warnings) ==
    IF warnings = << >> THEN "No weather warning at this time."
    ELSE Head(warnings)

\* os.path.isfile on the temp directory.
isfile(files, p) == p \in DOMAIN files /\ files[p].isfile

\* ensure_image_path: the path it returns, and the session and the temp
\* directory it leaves.  uuid4 names a file that does not exist yet.
ensure_image_path(s, files) ==
    IF s.qa_image_bytes = None
    THEN [path |-> NoPath, session |-> s, tmp |-> files]
    ELSE IF s.qa_image_path # NoPath /\ isfile(files, s.qa_image_path)
    THEN [path |-> s.qa_image_path, session |-> s, tmp |-> files]
    ELSE LET safe_path == Len(files) + 1
         IN [path |-> safe_path,
             session |-> [s EXCEPT !.qa_image_path = safe_path],
             tmp |-> Append(files, [suffix |-> s.qa_image_suffix,
                                    bytes |-> s.qa_image_bytes,
                                    isfile |-> TRUE])]

\* build_qa_inputs: caches the uploaded image's bytes in the session and
\* returns the Part 3 inputs.
build_qa_inputs(s, w) ==
    [session |->
        IF w.uploaded # NoUpload
        THEN [s EXCEPT !.qa_image_bytes = w.uploaded.bytes,
                       !.qa_image_suffix =
                           IF splitext(w.uploaded.name)[2] # ""
                           THEN splitext(w.uploaded.name)[2] ELSE ".png"]
        ELSE s,
     qa_info |-> [image_uploaded |-> TRUE, image_path |-> NoPath]]

\* A slip that stores the context and asks for the weather before it looks
\* at the crop type.
Part1CheckingLate(r, w, env) ==
    IF r.log.button # "part1" THEN r
    ELSE LET ctx == parse_ui_data(w)
         IN [r EXCEPT !.session.context = ctx,
                      !.log.weather_calls = IF w.located THEN 2 ELSE 0,
                      !.log.error_shown = (w.crop_type = ""),
                      !.log.ended = IF w.crop_type = "" THEN "stopped"
                                    ELSE "running"]

\* PART 1 (main.py:66-98).  r is the run so far: the session, the temp
\* directory and the run's record.
Part1(r, w, env) ==
    IF r.log.button # "part1" THEN r
    ELSE IF w.crop_type = ""
    THEN [r EXCEPT !.log.error_shown = TRUE, !.log.ended = "stopped"]
    ELSE
      LET ctx0 == parse_ui_data(w)
          ctx  == IF w.located
                  THEN [ctx0 EXCEPT !.weather_forecast = inject_weather(env.w7)]
                  ELSE ctx0
          s1   == IF w.located
                  THEN [r.session EXCEPT
                          !.weather7_text = summarize_weather(ctx.weather_forecast),
                          !.warning_text = format_warning_text(env.warnings)]
                  ELSE r.session
          s2   == [s1 EXCEPT !.context = ctx]
          \* two requests here, two more in build_prompt_basic
          log  == [r.log EXCEPT !.weather_calls = IF w.located THEN 4 ELSE 0,
                                !.llm_calls = 1]
      IN IF env.llm = "ok"
         THEN [r EXCEPT !.session = [s2 EXCEPT !.basic_summary = "summary"],
                        !.log = log]
         ELSE [r EXCEPT !.session = s2,
                        !.log = [log EXCEPT !.ended = "LLMError"]]

\* PART 2 (main.py:106-126).
Part2(r, w, env) ==
    IF r.log.ended # "running" \/ ~r.session.context.stored THEN r
    ELSE
      LET r1 == [r EXCEPT !.log.rendered = @ \cup { "part2" }]
      IN IF r.log.button # "part2" THEN r1
         ELSE
           LET log == [r1.log EXCEPT
                         !.weather_calls =
                             IF r.session.context.located THEN 1 ELSE 0,
                         !.llm_calls = 1]
           IN IF env.llm = "ok"
              THEN [r1 EXCEPT !.session.daily_plan = "schedule", !.log = log]
              ELSE [r1 EXCEPT !.log = [log EXCEPT !.ended = "LLMError"]]

\* PART 3 (main.py:128-181).
Part3(r, w, env) ==
    IF r.log.ended # "running" \/ ~r.session.context.stored THEN r
    ELSE
      LET inputs == build_qa_inputs(r.session, w)
          r1 == [r EXCEPT !.session = inputs.session,
                          !.log.rendered = @ \cup { "part3" }]
      IN IF r.log.button # "part3" THEN r1
         ELSE
           LET ctx == r1.session.context
               \* (ctx.realtime_qa or RealtimeQA()).copy(update=qa_info)
               qa0 == [ctx.realtime_qa EXCEPT
                         !.image_uploaded = inputs.qa_info.image_uploaded,
                         !.image_path = inputs.qa_info.image_path]
               e   == ensure_image_path(r1.session, r1.tmp)
               qa1 == [qa0 EXCEPT !.image_path = e.path,
                                  !.image_uploaded = (e.path # NoPath)]
               analyse == /\ qa1.image_uploaded
                          /\ qa1.vision_analysis = None
                          /\ isfile(e.tmp, qa1.image_path)
               \* vision_analysis reads the file at image_path
               qa  == IF analyse /\ env.vision = "ok"
                      THEN [qa1 EXCEPT !.vision_analysis = e.tmp[e.path].bytes]
                      ELSE qa1
               s   == [e.session EXCEPT !.context.realtime_qa = qa]
               log == [r1.log EXCEPT
                         !.ensured = TRUE,
                         !.image_path = e.path,
                         !.file_bytes = IF isfile(e.tmp, e.path)
                                        THEN e.tmp[e.path].bytes ELSE None,
                         !.vision_calls = IF analyse THEN 1 ELSE 0,
                         !.error_shown = (analyse /\ env.vision # "ok"),
                         !.weather_calls = IF ctx.located THEN 2 ELSE 0,
                         !.llm_calls = 1,
                         !.prompted = TRUE,
                         !.prompt_vision = qa.vision_analysis]
           IN IF env.llm = "ok"
              THEN [r1 EXCEPT !.session = [s EXCEPT !.rt_answer = "answer"],
                              !.tmp = e.tmp, !.log = log]
              ELSE [r1 EXCEPT !.session = s, !.tmp = e.tmp,
                              !.log = [log EXCEPT !.ended = "LLMError"]]

\* Streamlit runs the script from top to bottom with the widgets as they are
\* now: r1, r2, r are the run after Part 1, Part 2 and Part 3.  A widget the
\* run did not draw loses its value (the uploader, when Part 3 was not
\* reached).
Rerun(button, w, env) ==
    \E r1 \in { Part1([session |-> session, tmp |-> tmp,
                       log |-> BeginRun(button)], w, env) } :
    \E r2 \in { Part2(r1, w, env) } :
    \E r \in { Part3(r2, w, env) } :
       /\ Len(r.tmp) <= MaxTmpFiles
       /\ session' = r.session
       /\ tmp' = r.tmp
       /\ lastRun' = [r.log EXCEPT
                        !.ended = IF @ = "running" THEN "completed" ELSE @]
       /\ widgets' = IF "part3" \in r.log.rendered THEN w
                     ELSE [w EXCEPT !.uploaded = NoUpload]
       /\ UNCHANGED << storeVars, chat >>

\* The user edits the crop type.
EditCropType(crop_type) ==
    /\ crop_type # widgets.crop_type
    /\ Rerun("none", [widgets EXCEPT !.crop_type = crop_type], Unasked)

\* The user clicks the map: last_clicked holds a latitude and a longitude.
ClickMap ==
    /\ ~widgets.located
    /\ Rerun("none", [widgets EXCEPT !.located = TRUE], Unasked)

\* The user puts an image in the uploader of Part 3, or takes it out.
UploadImage(uploaded) ==
    /\ "part3" \in lastRun.rendered
    /\ uploaded # widgets.uploaded
    /\ Rerun("none", [widgets EXCEPT !.uploaded = uploaded], Unasked)

PressPart1 == \E env \in EnvPart1 : Rerun("part1", widgets, env)

PressPart2 ==
    /\ "part2" \in lastRun.rendered
    /\ \E env \in EnvPart2 : Rerun("part2", widgets, env)

PressPart3 ==
    /\ "part3" \in lastRun.rendered
    /\ \E env \in EnvPart3 : Rerun("part3", widgets, env)

\* The system clears a file out of the temp directory.
TmpCleaned ==
    /\ \E p \in DOMAIN tmp :
          /\ tmp[p].isfile
          /\ tmp' = [tmp EXCEPT ![p].isfile = FALSE]
    /\ UNCHANGED << session, widgets, lastRun, storeVars, chat >>

NextSession ==
    \/ \E crop_type \in CropTypes : EditCropType(crop_type)
    \/ ClickMap
    \/ \E uploaded \in Uploads \cup { NoUpload } : UploadImage(uploaded)
    \/ PressPart1
    \/ PressPart2
    \/ PressPart3
    \/ TmpCleaned

SpecSession == Init /\ [][NextSession]_vars

\* ------------------------------------------------- claims on the session

\* C17: the three artifacts are produced in sequence: whenever daily_plan or
\* rt_answer is set, the context and basic_summary are set, also when a
\* Part 1 run failed after it had stored the context.
C17_PartsInSequence ==
    ( session.daily_plan # None \/ session.rt_answer # None )
    => /\ session.context.stored
       /\ session.basic_summary # None

\* C18: in a Part 3 run with an uploaded image, the vision_analysis stored on
\* the context and passed into the answer prompt was computed from the
\* image in the uploader: after another image is uploaded, the next Part 3
\* run asks the vision model again and does not reuse the earlier analysis.
\* Stated for the runs whose image file holds the uploaded bytes, so that it
\* does not rest on C19.
C18_VisionOfCurrentImage ==
    ( /\ lastRun.button = "part3"
      /\ lastRun.prompted
      /\ widgets.uploaded # NoUpload
      /\ lastRun.file_bytes = widgets.uploaded.bytes )
    => /\ lastRun.prompt_vision = session.context.realtime_qa.vision_analysis
       /\ lastRun.prompt_vision \in { None, widgets.uploaded.bytes }

\* C19: ensure_image_path returns None exactly when the session holds no
\* image bytes, and the file at a path it returns holds exactly the bytes
\* in session_state["qa_image_bytes"], also after a second upload.
C19_ImagePathHoldsCurrentBytes ==
    lastRun.ensured
    => /\ (lastRun.image_path = NoPath) <=> (session.qa_image_bytes = None)
       /\ lastRun.image_path # NoPath
             => lastRun.file_bytes = session.qa_image_bytes

\* C20: pressing Generate Part 1 with an empty crop type shows an error and
\* stops the run with the session state as it was (context, basic_summary,
\* weather7_text, warning_text), with no weather request and no LLM call.
C20_EmptyCropStopsRun ==
    [][ ( widgets.crop_type = "" /\ lastRun'.button = "part1" )
        => /\ session' = session
           /\ lastRun'.error_shown
           /\ lastRun'.ended = "stopped"
           /\ lastRun'.weather_calls = 0
           /\ lastRun'.llm_calls = 0 ]_vars

C20_Witness ==
    /\ lastRun.button = "part1"
    /\ lastRun.ended = "stopped"
    /\ widgets.crop_type = ""
    /\ widgets.located
    /\ session.context.stored
    /\ session.context.crop_type = "rice"
    /\ session.basic_summary # None
    /\ session.weather7_text # None

\* ------------------------------------------------- _chat_completion

\* stop=stop_after_attempt(3)
StopAfterAttempt == 3

\* retry=retry_if_exception_type((LLMError, TimeoutError))
RetryOn == { "LLMError", "TimeoutError" }

\* The messages and the model a caller passes (call_llm).
ChatMessages == { "plan prompt", "schedule prompt" }
ChatModels   == { "deepseek-chat", "deepseek-reasoner" }

\* What _client.chat.completions.create does in one attempt: it raises, or
\* it returns a response with the contents of its choices (None: a message
\* without content; no choice at all: resp.choices[0] raises IndexError).
ClientOutcomes ==
    { [raises |-> "APITimeoutError", choices |-> << >>],
      [raises |-> "RateLimitError", choices |-> << >>],
      [raises |-> "none", choices |-> << >>],
      [raises |-> "none", choices |-> << None >>],
      [raises |-> "none", choices |-> << "plan" >>],
      [raises |-> "none", choices |-> << " plan " >>] }

\* str.strip
strip(content) == IF content = " plan " THEN "plan" ELSE content

\* The body of _chat_completion for one attempt: the value it returns, or
\* LLMError for any exception raised inside the try block.
chat_completion_body(outcome) ==
    IF outcome.raises # "none" \/ outcome.choices = << >>
    THEN [raised |-> "LLMError", value |-> None]
    ELSE [raised |-> "none",
          value |-> strip(IF outcome.choices[1] = None THEN ""
                          ELSE outcome.choices[1])]

\* wait=wait_exponential(multiplier=1, min=1, max=8), in seconds.
wait_exponential(attempt_number) ==
    LET exp == 2 ^ (attempt_number - 1)
        capped == IF exp < 8 THEN exp ELSE 8
    IN IF capped > 1 THEN capped ELSE 1

\* A caller enters _chat_completion: tenacity starts with attempt 1.
ChatStart(messages, model) ==
    /\ chat.pc \in { "idle", "done" }
    /\ chat' = [IdleChat EXCEPT !.pc = "attempt", !.messages = messages,
                                !.model = model, !.attempt_number = 1]
    /\ UNCHANGED << storeVars, sessionVars >>

\* A slip that lets one more attempt through before it stops.
AttemptEndsStoppingLate(c, outcome) ==
    LET body == chat_completion_body(outcome)
        c1 == [c EXCEPT !.outcomes = Append(@, outcome),
                        !.raised = Append(@, body.raised)]
    IN IF body.raised = "none"
       THEN [c1 EXCEPT !.pc = "done", !.result = body.value]
       ELSE IF body.raised \notin RetryOn \/ c.attempt_number > StopAfterAttempt
       THEN [c1 EXCEPT !.pc = "done", !.err = body.raised]
       ELSE [c1 EXCEPT !.pc = "wait"]

\* The frame after one attempt: the value is returned; an exception the
\* retry condition does not name is raised as it is; after the last
\* attempt the exception is raised again (reraise=True); otherwise tenacity
\* sleeps and tries again.
AttemptEnds(c, outcome) ==
    LET body == chat_completion_body(outcome)
        c1 == [c EXCEPT !.outcomes = Append(@, outcome),
                        !.raised = Append(@, body.raised)]
    IN IF body.raised = "none"
       THEN [c1 EXCEPT !.pc = "done", !.result = body.value]
       ELSE IF body.raised \notin RetryOn \/ c.attempt_number >= StopAfterAttempt
       THEN [c1 EXCEPT !.pc = "done", !.err = body.raised]
       ELSE [c1 EXCEPT !.pc = "wait"]

\* One attempt: the body runs against the client.
ChatAttempt ==
    /\ chat.pc = "attempt"
    /\ \E outcome \in ClientOutcomes : chat' = AttemptEnds(chat, outcome)
    /\ UNCHANGED << storeVars, sessionVars >>

\* The sleep between two attempts ends.
ChatWait ==
    /\ chat.pc = "wait"
    /\ chat' = [chat EXCEPT !.pc = "attempt",
                            !.slept = Append(@, wait_exponential(chat.attempt_number)),
                            !.attempt_number = @ + 1]
    /\ UNCHANGED << storeVars, sessionVars >>

NextChat ==
    \/ \E messages \in ChatMessages, model \in ChatModels :
          ChatStart(messages, model)
    \/ ChatAttempt
    \/ ChatWait

\* The client answers or fails in finite time and a sleep ends: a call that
\* has started keeps taking its steps.
SpecChat ==
    Init /\ [][NextChat]_vars /\ WF_vars(ChatAttempt) /\ WF_vars(ChatWait)

\* C21: a call of _chat_completion makes at most 3 attempts against the
\* client; it returns the result of the first attempt that succeeds; every
\* failed attempt is surfaced as LLMError and retried; after the third
\* failure in a row the LLMError is raised to the caller; and the call
\* always ends, with a result or with an LLMError.
C21_BoundedRetry ==
    /\ [] ( /\ Len(chat.outcomes) <= 3
            /\ \A i \in DOMAIN chat.outcomes :
                  /\ chat.raised[i] \in { "none", "LLMError" }
                  /\ chat.outcomes[i].raises # "none"
                        => chat.raised[i] = "LLMError"
                  /\ chat.raised[i] = "none"
                        => /\ i = Len(chat.outcomes)
                           /\ chat.outcomes[i].choices # << >>
                           /\ chat.pc = "done"
                           /\ chat.err = "none"
                           /\ chat.result \in { "", "plan" }
                           /\ chat.outcomes[i].choices[1] \in { "plan", " plan " }
                                 <=> chat.result = "plan"
                  /\ ( chat.raised[i] # "none" /\ i < 3 )
                        => ( i < Len(chat.outcomes) \/ chat.pc # "done" )
            /\ chat.pc = "done"
                  => \/ chat.err = "none" /\ chat.result # None
                     \/ /\ chat.err = "LLMError"
                        /\ chat.result = None
                        /\ Len(chat.outcomes) = 3
                        /\ \A i \in DOMAIN chat.raised : chat.raised[i] = "LLMError" )
    /\ ( chat.pc \in { "attempt", "wait" } ~> chat.pc = "done" )

C21_Witness ==
    /\ chat.pc = "done"
    /\ chat.err = "LLMError"
    /\ Len(chat.outcomes) = 3
    /\ chat.slept = << 1, 2 >>

====
